---------------------------- MODULE Spec2Model ----------------------------
(***************************************************************************)
(* A model of simscity's sequencing-noise functions                        *)
(* (src/src/simscity/sequencing.py): library_size, umi_counts, pcr_noise.  *)
(*                                                                         *)
(* Each function is a small sequential program: pc is the statement about  *)
(* to run, "done" after the return statement and "error" after a raise.    *)
(* Random draws are nondeterministic choices over the support of the       *)
(* distribution; rng counts the draws taken from the process-wide          *)
(* generator.  One specification per function: SpecLib, SpecUmi, SpecPcr.  *)
(***************************************************************************)
EXTENDS Integers, Sequences, FiniteSets

VARIABLES
    pc,             \* the statement about to run, "done" or "error"
    err,            \* the exception raised, "none" while there is none
    rng,            \* draws taken from the process-wide random generator
    lib_args,       \* library_size: its arguments
    lib_draw,       \* library_size: the truncated-normal draws (log space)
    lib_ret,        \* library_size: the returned array
    umi_args,       \* umi_counts: its arguments
    warned,         \* umi_counts: the reshape warning was emitted
    lib_size,       \* umi_counts: local lib_size after lines 81-84
    fragment_expression, \* umi_counts: local of line 89, one row per cell
    rows,           \* umi_counts: the multinomial rows sampled so far
    umi_ret,        \* umi_counts: the returned count structure
    pcr_args,       \* pcr_noise: its arguments (values at the call)
    heap,           \* pcr_noise: the count objects, by identity
    read_counts,    \* pcr_noise: the object the local read_counts refers to
    pcr_betas,      \* pcr_noise: local pcr_betas after lines 134-138
    cycle,          \* pcr_noise: cycles of the loop completed
    pcr_ret         \* pcr_noise: the object returned

libvars == <<lib_args, lib_draw, lib_ret>>
umivars == <<umi_args, warned, lib_size, fragment_expression, rows, umi_ret>>
pcrvars == <<pcr_args, heap, read_counts, pcr_betas, cycle, pcr_ret>>
vars == <<pc, err, rng, libvars, umivars, pcrvars>>

\* The value of a variable that belongs to a function that is not running,
\* and of a local that is not assigned yet.
Unset == <<>>

Terminated == pc \in {"done", "error"}

---------------------------------------------------------------------------
(***************************************************************************)
(* Helpers on sequences and index tuples.                                  *)
(***************************************************************************)
RECURSIVE SumSeq(_)
SumSeq(s) == IF s = <<>> THEN 0 ELSE Head(s) + SumSeq(Tail(s))

RECURSIVE ProdSeq(_)
ProdSeq(s) == IF s = <<>> THEN 1 ELSE Head(s) * ProdSeq(Tail(s))

RECURSIVE Concat(_)
Concat(ss) == IF ss = <<>> THEN <<>> ELSE Head(ss) \o Concat(Tail(ss))

RECURSIVE Pow2(_)
Pow2(n) == IF n = 0 THEN 1 ELSE 2 * Pow2(n - 1)

---------------------------------------------------------------------------
(***************************************************************************)
(* library_size.  Log-space quantities (loc, scale, the draws) are counted *)
(* in quarters: 6 stands for 1.5.  lower_bound and upper_bound are whole   *)
(* multiples of scale.                                                     *)
(***************************************************************************)
MaxLoc == 2
MaxScale == 2
MaxN == 2
\* how many scales above loc the model lets an unbounded draw go
MaxTail == 2
\* a loc so large that the exponentiated draw exceeds the int64 range
BigLoc == 200

LowerBounds == {-1, 0}
UpperBounds == {0, 1, 2}

\* floor(1000 * e^(k/4)) for k = -4 .. 12: np.exp on the quarter grid, to
\* three decimals.
ExpTable == <<367, 472, 606, 778, 1000, 1284, 1648, 2117, 2718, 3490, 4481,
              5754, 7389, 9487, 12182, 15642, 20085>>
ExpMilli(k) == ExpTable[k + 5]

\* The first quarter-grid point whose exponential is beyond int64:
\* ln(2^63) = 43.67, so e^43.75 does not fit.
OverflowQuarter == 175
FitsInt64(k) == k < OverflowQuarter

\* truncnorm's support: [loc + lower_bound*scale, loc + upper_bound*scale].
LowerLimit(a) == a.loc + a.lower_bound * a.scale
UpperLimit(a) ==
    IF a.upper_inf THEN a.loc + MaxTail * a.scale
    ELSE a.loc + a.upper_bound * a.scale

\* scipy rejects the arguments (ValueError) unless scale > 0 and a < b.
DomainOk(a) == a.scale > 0 /\ (a.upper_inf \/ a.lower_bound < a.upper_bound)

\* CastInt gone wrong: rounding to the nearest integer instead of truncating
CastIntRounded(k) ==
    IF FitsInt64(k) THEN {[ovf |-> FALSE, v |-> (ExpMilli(k) + 500) \div 1000]}
    ELSE {[ovf |-> TRUE, v |-> -1], [ovf |-> TRUE, v |-> 1]}

\* .astype(int) of the float e^(k/4): truncation toward zero, and for a value
\* outside int64 whatever the platform's conversion gives (INT64_MIN on
\* x86-64, INT64_MAX on aarch64), written v = -1 and v = 1 with ovf set.
CastInt(k) ==
    IF FitsInt64(k) THEN {[ovf |-> FALSE, v |-> ExpMilli(k) \div 1000]}
    ELSE {[ovf |-> TRUE, v |-> -1], [ovf |-> TRUE, v |-> 1]}

\* the cast applied to every element of the array
CastAll(d) ==
    {r \in [DOMAIN d -> UNION {CastInt(d[i]) : i \in DOMAIN d}] :
        \A i \in DOMAIN d : r[i] \in CastInt(d[i])}

LibArgs ==
    [n_cells : 1..MaxN, loc : (0..MaxLoc) \cup {BigLoc}, scale : 0..MaxScale,
     lower_bound : LowerBounds, upper_bound : UpperBounds, upper_inf : {FALSE}]
    \cup
    [n_cells : 1..MaxN, loc : (0..MaxLoc) \cup {BigLoc}, scale : 0..MaxScale,
     lower_bound : LowerBounds, upper_bound : {0}, upper_inf : {TRUE}]

InitLib ==
    /\ pc = "lib_sample" /\ err = "none" /\ rng = 0
    /\ lib_args \in LibArgs
    /\ lib_draw = Unset /\ lib_ret = Unset
    /\ umi_args = Unset /\ warned = FALSE /\ lib_size = Unset
    /\ fragment_expression = Unset /\ rows = Unset /\ umi_ret = Unset
    /\ pcr_args = Unset /\ heap = Unset /\ read_counts = Unset
    /\ pcr_betas = Unset /\ cycle = 0 /\ pcr_ret = Unset

\* line 30: st.truncnorm.rvs(lower_bound, upper_bound, loc, scale, size)
LibSample ==
    /\ pc = "lib_sample"
    /\ IF DomainOk(lib_args)
       THEN /\ \E d \in [1..lib_args.n_cells ->
                          LowerLimit(lib_args)..UpperLimit(lib_args)] :
                   lib_draw' = d
            /\ rng' = rng + 1
            /\ pc' = "lib_exp"
            /\ err' = err
       ELSE /\ pc' = "error"
            /\ err' = "ValueError: domain error in arguments"
            /\ UNCHANGED <<lib_draw, rng>>
    /\ UNCHANGED <<lib_args, lib_ret, umivars, pcrvars>>

\* lines 29-31: np.exp(...).astype(int), and the return
LibExpCast ==
    /\ pc = "lib_exp"
    /\ \E r \in CastAll(lib_draw) : lib_ret' = r
    /\ pc' = "done"
    /\ UNCHANGED <<err, rng, lib_args, lib_draw, umivars, pcrvars>>

NextLib == LibSample \/ LibExpCast

SpecLib == InitLib /\ [][NextLib]_vars

---------------------------------------------------------------------------
(***************************************************************************)
(* Arrays.  An array is [shape, at]: at maps every index tuple (1-based)   *)
(* of the shape to a value; a scalar is the array of shape <<>>.           *)
(***************************************************************************)
RECURSIVE Indices(_)
Indices(s) ==
    IF s = <<>> THEN {<<>>}
    ELSE {<<i>> \o t : i \in 1..Head(s), t \in Indices(Tail(s))}

Scalar(x) == [shape |-> <<>>, at |-> [i \in {<<>>} |-> x]]

Arrays(s, vals) == {[shape |-> s, at |-> f] : f \in [Indices(s) -> vals]}

\* NdIndex gone wrong: the first axis varying fastest (Fortran order)
RECURSIVE NdIndexColMajor(_)
NdIndexColMajor(s) ==
    IF s = <<>> THEN << <<>> >>
    ELSE LET rest == NdIndexColMajor(SubSeq(s, 1, Len(s) - 1))
         IN Concat([i \in 1..s[Len(s)] |->
                       [k \in 1..Len(rest) |-> rest[k] \o <<i>>]])

\* np.ndindex(*s): the index tuples of s, the last axis varying fastest
RECURSIVE NdIndex(_)
NdIndex(s) ==
    IF s = <<>> THEN << <<>> >>
    ELSE LET rest == NdIndex(Tail(s))
         IN Concat([i \in 1..Head(s) |->
                       [k \in 1..Len(rest) |-> <<i>> \o rest[k]]])

\* the C-order (row-major) offset of index tuple i in shape s, from 0
RECURSIVE Ravel(_, _)
Ravel(i, s) ==
    IF s = <<>> THEN 0
    ELSE (Head(i) - 1) * ProdSeq(Tail(s)) + Ravel(Tail(i), Tail(s))

\* np.broadcast_to(a, s): numpy's rule on the trailing axes
CanBroadcast(a, s) ==
    /\ Len(a.shape) <= Len(s)
    /\ \A j \in 1..Len(a.shape) :
          a.shape[j] \in {1, s[Len(s) - Len(a.shape) + j]}
BroadcastTo(a, s) ==
    [shape |-> s,
     at |-> [i \in Indices(s) |->
               a.at[[j \in 1..Len(a.shape) |->
                       IF a.shape[j] = 1 THEN 1
                       ELSE i[Len(s) - Len(a.shape) + j]]]]]

---------------------------------------------------------------------------
(***************************************************************************)
(* The random draws.  A binomial draw with n trials and probability        *)
(* num/den is any value of its support.                                    *)
(***************************************************************************)
\* BinomialOutcomes gone wrong: a probability of 0 or 1 not honoured
BinomialAnyP(n, num, den) == 0..n

BinomialOutcomes(n, num, den) ==
    IF n = 0 \/ num = 0 THEN {0}
    ELSE IF num = den THEN {n}
    ELSE 0..n

\* np.random.multinomial(n, pvals), pvals[j] = w[j] / sum(w): numpy draws
\* category j < d from binomial(dn, pvals[j] / Sum), dn the trials left and
\* Sum the probability mass left, and gives the last category what remains.
RECURSIVE MultinomialFrom(_, _, _)
MultinomialFrom(dn, w, j) ==
    IF j = Len(w) THEN {<<dn>>}
    ELSE UNION {{<<x>> \o t : t \in MultinomialFrom(dn - x, w, j + 1)} :
                  x \in BinomialOutcomes(dn, w[j],
                                         SumSeq(SubSeq(w, j, Len(w))))}
\* Multinomial gone wrong: every category drawn on its own from all n trials
MultinomialIndependent(n, w) ==
    {r \in [1..Len(w) -> 0..n] :
        \A j \in 1..Len(w) : r[j] \in BinomialOutcomes(n, w[j], SumSeq(w))}

Multinomial(n, w) == MultinomialFrom(n, w, 1)

---------------------------------------------------------------------------
(***************************************************************************)
(* umi_counts.  Expression values matter to the draws only by their sign   *)
(* (negative: rejected; zero: probability 0; positive), so the inputs are  *)
(* drawn from {-1, 0, 1}.                                                  *)
(***************************************************************************)
MaxLib == 1
MaxFrag == 2

ExprVals == {-1, 0, 1}
\* a 0-d and a 1-d input, two cells of two genes, and 2 x 2 cells of one gene
Shapes == {<<>>, <<2>>, <<2, 2>>, <<2, 2, 1>>}

NoLibSize == [given |-> FALSE, shape |-> <<>>, at |-> <<>>]
Given(a) == [given |-> TRUE, shape |-> a.shape, at |-> a.at]

CellShape(s) == SubSeq(s, 1, Len(s) - 1)

LibChoices(s) ==
    {NoLibSize}
    \cup {Given(Scalar(n)) : n \in 0..MaxLib}
    \cup (IF Len(s) >= 2
          THEN {Given(a) : a \in Arrays(CellShape(s), 0..MaxLib)}
          ELSE {})

FragChoices(s) ==
    {Scalar(k) : k \in 1..MaxFrag}
    \cup (IF Len(s) >= 2 THEN Arrays(<<s[Len(s)]>>, 1..MaxFrag) ELSE {})

UmiArgs ==
    UNION {[raw_expression : Arrays(s, ExprVals),
            lib_size : LibChoices(s),
            fragments_per_gene : FragChoices(s),
            sparse : BOOLEAN] : s \in Shapes}

InitUmi ==
    /\ pc = "umi_validate" /\ err = "none" /\ rng = 0
    /\ umi_args \in UmiArgs
    /\ warned = FALSE /\ lib_size = Unset
    /\ fragment_expression = Unset /\ rows = Unset /\ umi_ret = Unset
    /\ lib_args = Unset /\ lib_draw = Unset /\ lib_ret = Unset
    /\ pcr_args = Unset /\ heap = Unset /\ read_counts = Unset
    /\ pcr_betas = Unset /\ cycle = 0 /\ pcr_ret = Unset

RawShape == umi_args.raw_expression.shape
\* lines 78-79
n_cells == CellShape(RawShape)
n_genes == RawShape[Len(RawShape)]

\* line 69: np.any(raw_expression < 0)
AnyNegative(a) == \E i \in Indices(a.shape) : a.at[i] < 0

\* TooFewAxes gone wrong: the dimensionality check left out
TooFewAxesUnchecked(a) == FALSE

\* line 72: len(raw_expression.shape) == 1
TooFewAxes(a) == Len(a.shape) = 1

\* lines 69-76: the two validations, in this order, and the warning
UmiValidate ==
    /\ pc = "umi_validate"
    /\ IF AnyNegative(umi_args.raw_expression)
       THEN /\ pc' = "error"
            /\ err' = "ValueError: raw_expression must be non-negative"
            /\ UNCHANGED warned
       ELSE IF TooFewAxes(umi_args.raw_expression)
       THEN /\ pc' = "error"
            /\ err' = "ValueError: raw_expression should be >= 2 dimensions"
            /\ UNCHANGED warned
       ELSE /\ pc' = "umi_shape"
            /\ err' = err
            /\ warned' = (umi_args.sparse /\ Len(RawShape) > 2)
    /\ UNCHANGED <<rng, umi_args, lib_size, fragment_expression, rows,
                   umi_ret, libvars, pcrvars>>

\* lines 78-79: raw_expression.shape[-1] of a 0-d array is an IndexError
UmiShape ==
    /\ pc = "umi_shape"
    /\ IF RawShape = <<>>
       THEN pc' = "error" /\ err' = "IndexError: tuple index out of range"
       ELSE pc' = "umi_lib_size" /\ err' = err
    /\ UNCHANGED <<rng, umivars, libvars, pcrvars>>

\* what library_size(n_cells) may return under its default arguments, cut
\* down to the model's library sizes
DefaultLibSizes == Arrays(n_cells, 1..MaxLib)

\* lines 81-84
UmiLibSize ==
    /\ pc = "umi_lib_size"
    /\ IF ~umi_args.lib_size.given
       THEN /\ \E a \in DefaultLibSizes : lib_size' = a
            /\ rng' = rng + 1
            /\ pc' = "umi_expand" /\ err' = err
       ELSE IF CanBroadcast(umi_args.lib_size, n_cells)
       THEN /\ lib_size' = BroadcastTo(umi_args.lib_size, n_cells)
            /\ pc' = "umi_expand" /\ err' = err /\ rng' = rng
       ELSE /\ pc' = "error" /\ err' = "ValueError: cannot broadcast"
            /\ UNCHANGED <<lib_size, rng>>
    /\ UNCHANGED <<umi_args, warned, fragment_expression, rows, umi_ret,
                   libvars, pcrvars>>

\* np.repeat(row, reps): element g repeated reps[g] times, in place
RECURSIVE Repeat(_, _)
Repeat(row, reps) ==
    IF row = <<>> THEN <<>>
    ELSE [k \in 1..Head(reps) |-> Head(row)] \o Repeat(Tail(row), Tail(reps))

\* the genes of one cell, raw_expression[i]
CellRow(a, i) == [g \in 1..a.shape[Len(a.shape)] |-> a.at[i \o <<g>>]]

\* lines 86-89: broadcast fragments_per_gene, repeat along the last axis
UmiExpand ==
    /\ pc = "umi_expand"
    /\ IF CanBroadcast(umi_args.fragments_per_gene, <<n_genes>>)
       THEN LET f == BroadcastTo(umi_args.fragments_per_gene, <<n_genes>>)
                reps == [g \in 1..n_genes |-> f.at[<<g>>]]
            IN /\ fragment_expression' =
                      [i \in Indices(n_cells) |->
                          Repeat(CellRow(umi_args.raw_expression, i), reps)]
               /\ rows' = <<>>
               /\ pc' = "umi_sample" /\ err' = err
       ELSE /\ pc' = "error" /\ err' = "ValueError: cannot broadcast"
            /\ UNCHANGED <<fragment_expression, rows>>
    /\ UNCHANGED <<rng, umi_args, warned, lib_size, umi_ret, libvars,
                   pcrvars>>

\* line 91: gene_p[i] is fragment_expression[i] over its sum; a row of sum 0
\* gives 0/0 = NaN in every place
GenePIsNaN(i) == SumSeq(fragment_expression[i]) = 0

\* lines 93-105, one turn of the comprehension: the multinomial draw of the
\* next cell in np.ndindex order.  numpy rejects NaN probabilities.
UmiSample ==
    /\ pc = "umi_sample"
    /\ Len(rows) < ProdSeq(n_cells)
    /\ LET i == NdIndex(n_cells)[Len(rows) + 1]
       IN IF GenePIsNaN(i)
          THEN /\ pc' = "error"
               /\ err' = "ValueError: pvals contains NaNs"
               /\ UNCHANGED <<rows, rng>>
          ELSE /\ \E r \in Multinomial(lib_size.at[i],
                                       fragment_expression[i]) :
                      rows' = Append(rows, r)
               /\ rng' = rng + 1
               /\ pc' = pc /\ err' = err
    /\ UNCHANGED <<umi_args, warned, lib_size, fragment_expression, umi_ret,
                   libvars, pcrvars>>

\* np.vstack(rows).reshape(*n_cells, -1): C order
StackDense(rs, cells) ==
    LET ncols == Len(rs[1])
        shape == cells \o <<ncols>>
    IN [sparse |-> FALSE, shape |-> shape,
        at |-> [idx \in Indices(shape) |->
                   LET off == Ravel(idx, shape)
                   IN rs[(off \div ncols) + 1][(off % ncols) + 1]],
        entries |-> <<>>]

\* sp.csr_matrix(row): the nonzero entries of a row, by column
RowEntries(r, row) ==
    LET cols == SelectSeq([j \in 1..Len(row) |-> j], LAMBDA j : row[j] # 0)
    IN [k \in 1..Len(cols) |-> <<r, cols[k], row[cols[k]]>>]

\* sp.vstack of the one-row matrices: entries <<row, column, value>> in
\* CSR order
StackSparse(rs) ==
    [sparse |-> TRUE, shape |-> <<Len(rs), Len(rs[1])>>, at |-> <<>>,
     entries |-> Concat([r \in 1..Len(rs) |-> RowEntries(r, rs[r])])]

\* lines 93-108: stack the rows and return
UmiStack ==
    /\ pc = "umi_sample"
    /\ Len(rows) = ProdSeq(n_cells)
    /\ umi_ret' = IF umi_args.sparse THEN StackSparse(rows)
                  ELSE StackDense(rows, n_cells)
    /\ pc' = "done"
    /\ UNCHANGED <<err, rng, umi_args, warned, lib_size, fragment_expression,
                   rows, libvars, pcrvars>>

NextUmi ==
    UmiValidate \/ UmiShape \/ UmiLibSize \/ UmiExpand \/ UmiSample
    \/ UmiStack

SpecUmi == InitUmi /\ [][NextUmi]_vars

---------------------------------------------------------------------------
(***************************************************************************)
(* umi_counts: the claims.                                                 *)
(***************************************************************************)
NegativeMsg == "ValueError: raw_expression must be non-negative"
DimensionMsg == "ValueError: raw_expression should be >= 2 dimensions"

\* the preconditions of umi_counts: no negative value, at least 2 axes
ValidUmiInput ==
    /\ \A i \in Indices(RawShape) : umi_args.raw_expression.at[i] >= 0
    /\ Len(RawShape) >= 2

\* the library size the call assigns to cell i: the given scalar, the given
\* array's element, or the drawn value
AssignedLib(i) ==
    IF ~umi_args.lib_size.given THEN lib_size.at[i]
    ELSE IF umi_args.lib_size.shape = <<>> THEN umi_args.lib_size.at[<<>>]
    ELSE umi_args.lib_size.at[i]

\* the sum of cell i's row of a dense array
DenseRowSum(m, i) ==
    SumSeq([j \in 1..m.shape[Len(m.shape)] |-> m.at[i \o <<j>>]])

\* the total expression of cell i of the input
RawRowSum(i) == SumSeq(CellRow(umi_args.raw_expression, i))

RowsSumToLibSize ==
    \A i \in Indices(n_cells) : DenseRowSum(umi_ret, i) = AssignedLib(i)

\* C1 as stated: for every non-negative raw_expression with at least 2 axes,
\* cells of total expression zero included, the call ends with a dense
\* output whose every row sums to the library size assigned to its cell.
C1_RowsSumForAllInputs ==
    (ValidUmiInput /\ ~umi_args.sparse /\ Terminated)
        => (pc = "done" /\ RowsSumToLibSize)

\* C1 amended: every row of a dense output sums exactly to the library size
\* assigned to its cell; the call returns one whenever the input is valid
\* and every cell has a positive total expression; a cell whose expression
\* row sums to zero makes the call fail in the multinomial draw (NaN
\* probabilities), so there is no output at all.
C1_RowsSumWhenPositive ==
    /\ (pc = "done" /\ ~umi_args.sparse) => RowsSumToLibSize
    /\ (ValidUmiInput /\ Terminated
          /\ \A i \in Indices(n_cells) : RawRowSum(i) > 0)
         => pc = "done"
    /\ (ValidUmiInput /\ Terminated
          /\ \E i \in Indices(n_cells) : RawRowSum(i) = 0)
         => (pc = "error" /\ err = "ValueError: pvals contains NaNs"
             /\ umi_ret = Unset)

\* C1's case: a dense output over cells that were given different library
\* sizes, one of them sampled into a fragment column other than the first.
C1_Witness ==
    /\ pc = "done" /\ ~umi_args.sparse
    /\ umi_args.lib_size.given /\ umi_args.lib_size.shape # <<>>
    /\ \E i, k \in Indices(n_cells) :
          /\ AssignedLib(i) # AssignedLib(k)
          /\ \E j \in 2..umi_ret.shape[Len(umi_ret.shape)] :
                umi_ret.at[i \o <<j>>] > 0

NothingDone ==
    /\ lib_size = Unset /\ fragment_expression = Unset /\ rows = Unset
    /\ umi_ret = Unset /\ rng = 0

FragsOf(g) ==
    IF umi_args.fragments_per_gene.shape = <<>>
    THEN umi_args.fragments_per_gene.at[<<>>]
    ELSE umi_args.fragments_per_gene.at[<<g>>]

TotalFrags == SumSeq([g \in 1..n_genes |-> FragsOf(g)])

\* the gene that column j of the expanded axis belongs to
GeneOfColumn(j) ==
    CHOOSE g \in 1..n_genes :
        /\ SumSeq([h \in 1..(g - 1) |-> FragsOf(h)]) < j
        /\ j <= SumSeq([h \in 1..g |-> FragsOf(h)])

\* the entries of row r of a sparse matrix
SparseRow(m, r) == SelectSeq(m.entries, LAMBDA e : e[1] = r)

\* C7: the dense output has the cells' shape and a last axis of length
\* sum(fragments_per_gene); the sparse output is 2-D, one row per cell in
\* row-major order of the leading axes (the row holds that cell's sample:
\* its library size, on columns of positive expression) and as many
\* columns; the columns of one gene carry that gene's expression over the
\* same total, hence the same probability.
C7_OutputShape ==
    /\ (pc = "done" /\ ~umi_args.sparse) =>
          /\ umi_ret.shape = n_cells \o <<TotalFrags>>
          /\ DOMAIN umi_ret.at = Indices(n_cells \o <<TotalFrags>>)
    /\ (pc = "done" /\ umi_args.sparse) =>
          /\ umi_ret.shape = <<ProdSeq(n_cells), TotalFrags>>
          /\ \A i \in Indices(n_cells) :
                LET es == SparseRow(umi_ret, Ravel(i, n_cells) + 1)
                IN /\ SumSeq([k \in 1..Len(es) |-> es[k][3]]) = AssignedLib(i)
                   /\ \A k \in 1..Len(es) :
                         /\ es[k][2] \in 1..TotalFrags
                         /\ es[k][3] > 0
                         /\ fragment_expression[i][es[k][2]] > 0
          /\ \A k \in 1..Len(umi_ret.entries) :
                umi_ret.entries[k][1] \in 1..ProdSeq(n_cells)
    /\ fragment_expression # Unset =>
          \A i \in Indices(n_cells) :
             /\ Len(fragment_expression[i]) = TotalFrags
             /\ \A j \in 1..TotalFrags :
                   fragment_expression[i][j] =
                       umi_args.raw_expression.at[i \o <<GeneOfColumn(j)>>]

\* C7's case: a sparse output for a 3-D input (the warning was emitted)
\* whose cells <<1, 2>> and <<2, 1>> differ in library size, with more than
\* one fragment per gene.
C7_Witness ==
    /\ pc = "done" /\ umi_args.sparse /\ warned /\ Len(RawShape) = 3
    /\ AssignedLib(<<1, 2>>) # AssignedLib(<<2, 1>>)
    /\ TotalFrags > n_genes
    /\ umi_ret.entries # <<>>

---------------------------------------------------------------------------
(***************************************************************************)
(* pcr_noise.  A count matrix is [sparse, shape, at, entries]: a dense one *)
(* holds its values in at, a sparse (CSR) one its stored entries           *)
(* <<row, column, value>> in entries, in CSR order; a stored value may be  *)
(* 0.  Efficiencies are counted in halves: 1 stands for 0.5, 2 for 1.0.    *)
(***************************************************************************)
MaxCount == 1
MaxCycles == 2

\* -0.5, 0, 0.5, 1.0 and 1.5
BetaVals == {-1, 0, 1, 2, 3}
\* one sample of two features, two samples of one feature
PcrShapes == {<<1, 2>>, <<2, 1>>}

DenseMatrices(s) ==
    {[sparse |-> FALSE, shape |-> s, at |-> f, entries |-> <<>>] :
        f \in [Indices(s) -> 0..MaxCount]}

\* f[i] = -1: position i is not stored
SparseOf(s, f) ==
    LET stored == SelectSeq(NdIndex(s), LAMBDA i : f[i] >= 0)
    IN [sparse |-> TRUE, shape |-> s, at |-> <<>>,
        entries |-> [k \in 1..Len(stored) |->
                        <<stored[k][1], stored[k][2], f[stored[k]]>>]]

SparseMatrices(s) ==
    {SparseOf(s, f) : f \in [Indices(s) -> -1..MaxCount]}

BetaChoices(s) ==
    {Scalar(b) : b \in BetaVals} \cup Arrays(<<s[2]>>, BetaVals)

PcrArgs ==
    UNION {[read_counts : DenseMatrices(s) \cup SparseMatrices(s),
            pcr_betas : BetaChoices(s),
            n_cycles : 0..MaxCycles,
            copy : BOOLEAN] : s \in PcrShapes}

InitPcr ==
    /\ pc = "pcr_check" /\ err = "none" /\ rng = 0
    /\ pcr_args \in PcrArgs
    /\ heap = [o \in {"caller"} |-> pcr_args.read_counts]
    /\ read_counts = "caller"
    /\ pcr_betas = Unset /\ cycle = 0 /\ pcr_ret = Unset
    /\ lib_args = Unset /\ lib_draw = Unset /\ lib_ret = Unset
    /\ umi_args = Unset /\ warned = FALSE /\ lib_size = Unset
    /\ fragment_expression = Unset /\ rows = Unset /\ umi_ret = Unset

\* AnyBetaNegative gone wrong: the validation left out
AnyBetaUnchecked(b) == FALSE

\* line 128: np.any(pcr_betas < 0)
AnyBetaNegative(b) == \E i \in Indices(b.shape) : b.at[i] < 0

\* lines 128-129
PcrCheck ==
    /\ pc = "pcr_check"
    /\ IF AnyBetaNegative(pcr_args.pcr_betas)
       THEN pc' = "error" /\ err' = "ValueError: pcr_betas must be non-negative"
       ELSE pc' = "pcr_copy" /\ err' = err
    /\ UNCHANGED <<rng, pcrvars, libvars, umivars>>

\* CopyTarget gone wrong: no copy is taken
CopyTargetAliased(copy) == "caller"

\* lines 131-132: the object read_counts refers to from here on
CopyTarget(copy) == IF copy THEN "copy" ELSE "caller"

\* lines 131-132
PcrCopy ==
    /\ pc = "pcr_copy"
    /\ read_counts' = CopyTarget(pcr_args.copy)
    /\ heap' = [o \in DOMAIN heap \cup {CopyTarget(pcr_args.copy)} |->
                   heap["caller"]]
    /\ pc' = "pcr_broadcast"
    /\ UNCHANGED <<err, rng, pcr_args, pcr_betas, cycle, pcr_ret, libvars,
                   umivars>>

\* read_counts.nonzero()[1]: the columns of the stored entries whose value
\* is not 0, in the order of the entries
NonzeroColumns(m) ==
    LET nz == SelectSeq(m.entries, LAMBDA e : e[3] # 0)
    IN [k \in 1..Len(nz) |-> nz[k][2]]

\* lines 134-140: pcr_betas broadcast to one value per column and, for a
\* sparse matrix, indexed by the columns of its nonzero entries
SelectBetas(m, b) ==
    LET row == BroadcastTo(b, <<1, m.shape[2]>>)
    IN IF m.sparse
       THEN LET cols == NonzeroColumns(m)
            IN [k \in 1..Len(cols) |-> row.at[<<1, cols[k]>>]]
       ELSE [c \in 1..m.shape[2] |-> row.at[<<1, c>>]]

\* lines 134-140
PcrBroadcast ==
    /\ pc = "pcr_broadcast"
    /\ IF CanBroadcast(pcr_args.pcr_betas, <<1, heap[read_counts].shape[2]>>)
       THEN /\ pcr_betas' = SelectBetas(heap[read_counts], pcr_args.pcr_betas)
            /\ pc' = "pcr_loop" /\ err' = err
       ELSE /\ pc' = "error" /\ err' = "ValueError: cannot broadcast"
            /\ UNCHANGED pcr_betas
    /\ UNCHANGED <<rng, pcr_args, heap, read_counts, cycle, pcr_ret, libvars,
                   umivars>>

\* np.random.binomial(n=d, p=pcr_betas, size=d.shape) raises ValueError when
\* a probability is outside [0, 1], and when p cannot be broadcast against d:
\* for a sparse matrix d is 1 x (stored entries) and p is 1 x (nonzero
\* entries), which fit when the lengths agree or p has one element.
DrawFails(m, sel) ==
    \/ \E k \in 1..Len(sel) : sel[k] < 0 \/ sel[k] > 2
    \/ m.sparse /\ Len(sel) # Len(m.entries) /\ Len(sel) # 1

\* the probability numpy pairs with stored entry k after broadcasting
EntryBeta(m, sel, k) == IF Len(sel) = Len(m.entries) THEN sel[k] ELSE sel[1]

\* Amplify gone wrong: the draw assigned instead of added
AmplifyAssign(d, x) == x

\* line 144: d += x
Amplify(d, x) == d + x

\* the values one cycle can leave, for a value d of efficiency beta
CycleValues(d, beta) ==
    {Amplify(d, x) : x \in BinomialOutcomes(d, beta, 2)}

\* lines 143-144: the matrices one cycle can leave
CycleOutcomes(m, sel) ==
    IF m.sparse
    THEN LET n == Len(m.entries)
             vals == UNION {CycleValues(m.entries[k][3], EntryBeta(m, sel, k)) :
                              k \in 1..n}
         IN {[m EXCEPT !.entries =
                 [k \in 1..n |-> <<m.entries[k][1], m.entries[k][2], v[k]>>]] :
               v \in {w \in [1..n -> vals] :
                        \A k \in 1..n :
                           w[k] \in CycleValues(m.entries[k][3],
                                                EntryBeta(m, sel, k))}}
    ELSE LET idx == Indices(m.shape)
             vals == UNION {CycleValues(m.at[i], sel[i[2]]) : i \in idx}
         IN {[m EXCEPT !.at = f] :
               f \in {g \in [idx -> vals] :
                        \A i \in idx : g[i] \in CycleValues(m.at[i], sel[i[2]])}}

\* lines 143-144, one cycle
PcrCycle ==
    /\ pc = "pcr_loop"
    /\ cycle < pcr_args.n_cycles
    /\ IF DrawFails(heap[read_counts], pcr_betas)
       THEN /\ pc' = "error"
            /\ err' = "ValueError: binomial rejects p or the shapes"
            /\ UNCHANGED <<heap, cycle, rng>>
       ELSE /\ \E m \in CycleOutcomes(heap[read_counts], pcr_betas) :
                   heap' = [heap EXCEPT ![read_counts] = m]
            /\ cycle' = cycle + 1
            /\ rng' = rng + 1
            /\ pc' = pc /\ err' = err
    /\ UNCHANGED <<pcr_args, read_counts, pcr_betas, pcr_ret, libvars,
                   umivars>>

\* lines 146-149: d is a view of read_counts.data, so writing it back leaves
\* the values as the cycles left them; the return
PcrReturn ==
    /\ pc = "pcr_loop"
    /\ cycle = pcr_args.n_cycles
    /\ pcr_ret' = read_counts
    /\ pc' = "done"
    /\ UNCHANGED <<err, rng, pcr_args, heap, read_counts, pcr_betas, cycle,
                   libvars, umivars>>

NextPcr == PcrCheck \/ PcrCopy \/ PcrBroadcast \/ PcrCycle \/ PcrReturn

SpecPcr == InitPcr /\ [][NextPcr]_vars

---------------------------------------------------------------------------
(***************************************************************************)
(* pcr_noise: the claims.                                                  *)
(***************************************************************************)
\* the value of matrix m at position i (0 where a sparse matrix stores none)
ValueAt(m, i) ==
    IF m.sparse
    THEN LET es == SelectSeq(m.entries, LAMBDA e : e[1] = i[1] /\ e[2] = i[2])
         IN IF es = <<>> THEN 0 ELSE es[1][3]
    ELSE m.at[i]

Positions == Indices(pcr_args.read_counts.shape)

\* the efficiency given for column c (a scalar counts for every column)
BetaOfColumn(c) ==
    IF pcr_args.pcr_betas.shape = <<>> THEN pcr_args.pcr_betas.at[<<>>]
    ELSE pcr_args.pcr_betas.at[<<c>>]

Columns == 1..pcr_args.read_counts.shape[2]
BetasNonNegative == \A c \in Columns : BetaOfColumn(c) >= 0
BetasAtMostOne == \A c \in Columns : BetaOfColumn(c) <= 2

\* every stored entry of the input is nonzero (always so for a dense input)
NoStoredZero(m) == \A k \in 1..Len(m.entries) : m.entries[k][3] # 0

OutputAtLeastInput ==
    \A i \in Positions :
        ValueAt(heap[pcr_ret], i) >= ValueAt(pcr_args.read_counts, i)

\* C2 as stated: for all pcr_betas >= 0, values above 1 included, and all
\* n_cycles, pcr_noise returns an output entrywise >= its input, equal to
\* it when n_cycles = 0.  (Inputs with stored zeros are left out here: they
\* fail for the reason of C3.)
C2_MonotoneForAllBetas ==
    (BetasNonNegative /\ NoStoredZero(pcr_args.read_counts) /\ Terminated)
        => /\ pc = "done"
           /\ OutputAtLeastInput
           /\ pcr_args.n_cycles = 0 => heap[pcr_ret] = pcr_args.read_counts

\* C2 amended: every output pcr_noise returns is entrywise >= its input;
\* it returns one for all pcr_betas in [0, 1] and all n_cycles (on a dense
\* input and on a sparse input whose stored entries are nonzero); with
\* n_cycles = 0 it returns the input's values exactly for all pcr_betas >= 0;
\* with n_cycles >= 1 a beta above 1 that meets an entry (any beta above 1
\* for a dense input) makes the binomial draw fail, and nothing is returned.
C2_MonotoneUpToOne ==
    /\ pc = "done" => OutputAtLeastInput
    /\ (pc = "done" /\ pcr_args.n_cycles = 0)
          => heap[pcr_ret] = pcr_args.read_counts
    /\ (Terminated /\ BetasNonNegative /\ BetasAtMostOne
          /\ NoStoredZero(pcr_args.read_counts))
          => pc = "done"
    /\ (Terminated /\ BetasNonNegative /\ pcr_args.n_cycles = 0)
          => pc = "done"
    /\ (Terminated /\ BetasNonNegative /\ pcr_args.n_cycles >= 1
          /\ \E i \in Positions :
                /\ BetaOfColumn(i[2]) > 2
                /\ (pcr_args.read_counts.sparse
                       => ValueAt(pcr_args.read_counts, i) # 0))
          => (pc = "error" /\ pcr_ret = Unset)

\* C2's case: after two cycles at efficiency 0.5 one entry has grown and
\* another, nonzero too, has not.
C2_Witness ==
    /\ pc = "done" /\ pcr_args.n_cycles = 2
    /\ \A c \in Columns : BetaOfColumn(c) = 1
    /\ \E i, k \in Positions :
          /\ ValueAt(heap[pcr_ret], i) > ValueAt(pcr_args.read_counts, i)
          /\ ValueAt(pcr_args.read_counts, k) > 0
          /\ ValueAt(heap[pcr_ret], k) = ValueAt(pcr_args.read_counts, k)

\* the positions of matrix m that hold a nonzero value
NonzeroPositions(m) == {i \in Indices(m.shape) : ValueAt(m, i) # 0}

\* C3: for every sparse input, stored zeros included, and efficiencies in
\* [0, 1], pcr_noise returns a matrix with the input's nonzero positions,
\* and when cycles ran each stored entry was paired with the efficiency of
\* its own column.
C3_SparsePatternKept ==
    (pcr_args.read_counts.sparse /\ BetasNonNegative /\ BetasAtMostOne
       /\ Terminated)
        => /\ pc = "done"
           /\ NonzeroPositions(heap[pcr_ret])
                 = NonzeroPositions(pcr_args.read_counts)
           /\ pcr_args.n_cycles >= 1 =>
                 \A k \in 1..Len(heap[pcr_ret].entries) :
                    /\ k <= Len(pcr_betas)
                    /\ EntryBeta(heap[pcr_ret], pcr_betas, k)
                          = BetaOfColumn(heap[pcr_ret].entries[k][2])

\* C4: with copy=True the caller's read_counts keeps its values in every
\* state of the call and the object returned is another one; with
\* copy=False no other object exists, the cycles act on the caller's object
\* and that object is returned.
C4_CopyOrInPlace ==
    /\ pcr_args.copy => heap["caller"] = pcr_args.read_counts
    /\ (pc = "done" /\ pcr_args.copy)
          => (pcr_ret # "caller" /\ pcr_ret \in DOMAIN heap)
    /\ ~pcr_args.copy => (DOMAIN heap = {"caller"} /\ read_counts = "caller")
    /\ (pc = "done" /\ ~pcr_args.copy) => pcr_ret = "caller"

\* C4's case: a sparse input amplified with copy=True: the returned object
\* holds other values than the caller's, which still holds the input's.
C4_Witness ==
    /\ pc = "done" /\ pcr_args.copy /\ pcr_args.read_counts.sparse
    /\ heap[pcr_ret] # heap["caller"]
    /\ cycle = 2

\* C6: with a negative value in pcr_betas the call does nothing but fail
\* with the validation error: no copy exists, the caller's read_counts has
\* its values, no draw was taken and no cycle ran.
C6_NegativeBetaRejected ==
    (\E c \in Columns : BetaOfColumn(c) < 0) =>
        /\ pc \in {"pcr_check", "error"}
        /\ Terminated => err = "ValueError: pcr_betas must be non-negative"
        /\ heap = [o \in {"caller"} |-> pcr_args.read_counts]
        /\ rng = 0 /\ cycle = 0 /\ pcr_ret = Unset

\* C6's case: copy=False, cycles asked for, nonzero counts, and one negative
\* efficiency beside a valid one: the call has failed.
C6_Witness ==
    /\ pc = "error" /\ ~pcr_args.copy /\ pcr_args.n_cycles > 0
    /\ \E c, e \in Columns : BetaOfColumn(c) < 0 /\ BetaOfColumn(e) = 1
    /\ \A i \in Positions : ValueAt(pcr_args.read_counts, i) > 0

\* the dense matrix with the values of m
Densify(m) ==
    [sparse |-> FALSE, shape |-> m.shape,
     at |-> [i \in Indices(m.shape) |-> ValueAt(m, i)], entries |-> <<>>]

\* C9: at every cycle of a call on a sparse matrix, with efficiencies in
\* [0, 1], the draw fails exactly when it fails on the dense matrix of the
\* same values under the same pcr_betas, and the matrices the cycle can
\* leave are, densified, the ones the dense cycle can leave.
C9_SparseAsDense ==
    (pc = "pcr_loop" /\ cycle < pcr_args.n_cycles
       /\ heap[read_counts].sparse /\ BetasAtMostOne)
        => LET m == heap[read_counts]
               dm == Densify(m)
               dsel == SelectBetas(dm, pcr_args.pcr_betas)
           IN /\ DrawFails(m, pcr_betas) = DrawFails(dm, dsel)
              /\ ~DrawFails(m, pcr_betas) =>
                    {Densify(x) : x \in CycleOutcomes(m, pcr_betas)}
                        = CycleOutcomes(dm, dsel)

\* one cycle: every entry d becomes d + x with 0 <= x <= d, the d of the
\* state before, and x = 0 where the column's efficiency is 0
CycleStepOk ==
    (pc = "pcr_loop" /\ cycle' = cycle + 1) =>
        \A i \in Positions :
            LET d == ValueAt(heap[read_counts], i)
                dnext == ValueAt(heap'[read_counts'], i)
            IN /\ d <= dnext /\ dnext - d <= d
               /\ BetaOfColumn(i[2]) = 0 => dnext = d

\* what is returned: within [d0, d0 * 2^n_cycles] for efficiencies in
\* [0, 1], and a column of efficiency 0 as it was
ReturnedWithinBounds ==
    pc = "done" =>
        \A i \in Positions :
            LET d0 == ValueAt(pcr_args.read_counts, i)
                dn == ValueAt(heap[pcr_ret], i)
            IN /\ BetasAtMostOne =>
                    (d0 <= dn /\ dn <= d0 * Pow2(pcr_args.n_cycles))
               /\ BetaOfColumn(i[2]) = 0 => dn = d0

\* C10: the recurrence of every cycle, and the bounds it gives the result.
C10_Recurrence == [][CycleStepOk]_vars /\ []ReturnedWithinBounds

\* C10's case: two cycles; an entry of efficiency 1.0 has doubled twice, so
\* the second draw was taken with the value the first cycle left, while a
\* nonzero entry of efficiency 0 is as it was.
C10_Witness ==
    /\ pc = "done" /\ pcr_args.n_cycles = 2
    /\ \E i, k \in Positions :
          /\ BetaOfColumn(i[2]) = 2
          /\ ValueAt(pcr_args.read_counts, i) > 0
          /\ ValueAt(heap[pcr_ret], i) = 4 * ValueAt(pcr_args.read_counts, i)
          /\ BetaOfColumn(k[2]) = 0
          /\ ValueAt(pcr_args.read_counts, k) > 0
          /\ ValueAt(heap[pcr_ret], k) = ValueAt(pcr_args.read_counts, k)

---------------------------------------------------------------------------
(***************************************************************************)
(* library_size: the claim.  v >= e^(k/4) is v * 1000 >= ExpMilli(k), and  *)
(* v <= e^(k/4) is v * 1000 <= ExpMilli(k): e^(k/4) is an integer only for *)
(* k = 0, where the table is exact.                                        *)
(***************************************************************************)
LowerLog == lib_args.loc + lib_args.lower_bound * lib_args.scale
UpperLog == lib_args.loc + lib_args.upper_bound * lib_args.scale

===========================================================================
